---------------------------- MODULE Spec2Model ----------------------------
(***************************************************************************)
(* Model of backend/api.py: the signed-session verifier                    *)
(* (verify_telegram_init_data), the identity resolution                    *)
(* (get_user_id_from_request), the metered reading transaction             *)
(* (handle_reading), the admin grant (handle_admin_add_requests), the      *)
(* payment intent (handle_payment) and the remaining endpoints.            *)
(*                                                                         *)
(* Four specifications share the module:                                   *)
(*   SpecVerify - the verifier as a pure function over bounded blobs;      *)
(*   Spec       - the request handlers, interleaved at every await.        *)
(*   SpecSeq    - the same handlers, one request at a time.                *)
(*   SpecApi    - the other endpoints (user, history, achievements, rates, *)
(*                auth, admin, payment) and the failures of the            *)
(*                collaborators, one family of endpoints per behaviour.    *)
(***************************************************************************)
EXTENDS Integers, Sequences, FiniteSets, TLC

VARIABLES
    blob,       \* init_data as the list of raw key=value segments (split at '&')
    now,        \* int(datetime.now().timestamp())
    vres,       \* what the last call of verify_telegram_init_data returned
    users,      \* users table: id -> row, or NoUser
    users0,     \* the users table as it was when the service started
    grants,     \* the db.add_requests_to_user calls that changed a row, in order
    forbidden_attempts, \* per-id violation counter
    history,    \* history table, oldest first
    req,        \* the handle_reading coroutines in flight, per slot
    workload,   \* the family of endpoints the clients of this behaviour call
    call,       \* the last request to an endpoint that answers in one step
    pay,        \* the handle_payment coroutines in flight, per slot
    payments,   \* payments table (the PaymentIntents), oldest first
    rates,      \* rates table (the rate catalog of the repository)
    auth        \* the handle_auth coroutines in flight, per slot

vars == <<blob, now, vres, users, users0, grants, forbidden_attempts, history, req,
          workload, call, pay, payments, rates, auth>>

verifyVars == <<blob, now, vres>>
ledgerVars == <<users, users0, grants, forbidden_attempts, history, req>>
apiVars == <<workload, call, pay, payments, rates, auth>>

-----------------------------------------------------------------------------
(* Bounds of the model *)

MaxPairs == 3       \* raw segments in one init_data blob
MaxReqs == 2        \* handle_reading requests per behaviour
MaxBal == 2         \* largest balance a user starts with
MaxGranted == 1     \* units the admin grants per behaviour, over all grants
T0 == 100000        \* what the clock reads

-----------------------------------------------------------------------------
(* Values of the raw key=value segments.  A value is a string; the model    *)
(* keeps what the code looks at: whether it is blank, is a decimal integer, *)
(* is a JSON text, or is the hex digest of an HMAC.                         *)

Blank == [tag |-> "blank", n |-> 0, msg |-> <<>>]
IntVal(i) == [tag |-> "int", n |-> i, msg |-> <<>>]
\* Txt(1): ASCII text that is neither an integer nor JSON; Txt(2): the same,
\* with a non-ASCII character in it.
Txt(i) == [tag |-> "txt", n |-> i, msg |-> <<>>]
\* the JSON object {"id": id}
UserJson(id) == [tag |-> "userjson", n |-> id, msg |-> <<>>]

\* hmac.new(key, msg, sha256).hexdigest(): an injective function of (key, msg)
HmacHex(key, m) == [tag |-> "mac", n |-> key, msg |-> m]

BotSecret == 1      \* hmac.new(b'WebAppData', BOT_TOKEN).digest()
OtherSecret == BotSecret + 1    \* the secret derived from any other signing key

AuthWindow == 86400

Keys == {"auth_date", "hash", "query_id", "user"}
FieldKeys == Keys \ {"hash"}

\* position of a key in the lexicographic order of the lines "key=value"
KeyRank(k) ==
    CASE k = "auth_date" -> 1
      [] k = "hash" -> 2
      [] k = "query_id" -> 3
      [] k = "user" -> 4

TagRank(t) ==
    CASE t = "blank" -> 0
      [] t = "int" -> 1
      [] t = "mac" -> 2
      [] t = "txt" -> 3
      [] t = "userjson" -> 4

\* l1 sorts strictly before l2 as the strings "key=value"
LineLess(l1, l2) ==
    \/ KeyRank(l1.k) < KeyRank(l2.k)
    \/ /\ l1.k = l2.k
       /\ \/ TagRank(l1.v.tag) < TagRank(l2.v.tag)
          \/ l1.v.tag = l2.v.tag /\ l1.v.n < l2.v.n

RECURSIVE InsertLine(_, _)
InsertLine(l, s) ==
    IF s = <<>> THEN <<l>>
    ELSE IF LineLess(Head(s), l) THEN <<Head(s)>> \o InsertLine(l, Tail(s))
    ELSE <<l>> \o s

\* list.sort() of the lines
RECURSIVE SortLines(_)
SortLines(s) ==
    IF s = <<>> THEN <<>> ELSE InsertLine(Head(s), SortLines(Tail(s)))

Min(S) == CHOOSE x \in S : \A y \in S : x <= y

-----------------------------------------------------------------------------
(* urllib.parse.parse_qs(init_data): keep_blank_values is False, so a       *)
(* segment with a blank value is dropped; a key that occurs more than once  *)
(* keeps the list of its values, of which the code reads values[0].         *)

NonBlankAt(b, key) == {i \in DOMAIN b : b[i].k = key /\ b[i].v.tag # "blank"}

ParsedKeys(b) == {key \in Keys : NonBlankAt(b, key) # {}}

\* parsed[key][0]
FirstValue(b, key) == b[Min(NonBlankAt(b, key))].v

\* the keys of parsed, in insertion order (first occurrence)
RECURSIVE KeyOrder(_, _)
KeyOrder(b, seen) ==
    IF b = <<>> THEN <<>>
    ELSE IF Head(b).v.tag = "blank" \/ Head(b).k \in seen
         THEN KeyOrder(Tail(b), seen)
         ELSE <<Head(b).k>> \o KeyOrder(Tail(b), seen \cup {Head(b).k})

RECURSIVE PairsOf(_, _)
PairsOf(b, ks) ==
    IF ks = <<>> THEN <<>>
    ELSE IF Head(ks) = "hash" THEN PairsOf(b, Tail(ks))
    ELSE <<[k |-> Head(ks), v |-> FirstValue(b, Head(ks))]>> \o PairsOf(b, Tail(ks))

\* data_check_string: '\n'.join(sorted(f"{key}={values[0]}" for key # 'hash'))
data_check_string(b) == SortLines(PairsOf(b, KeyOrder(b, {})))

\* int(auth_date_str) succeeds
IsInt(v) == v.tag = "int"
\* json.loads(user_str) succeeds
IsJson(v) == v.tag \in {"userjson", "int"}
\* hmac.compare_digest(str, str) raises TypeError on a non-ASCII string
IsAscii(v) == ~(v.tag = "txt" /\ v.n = 2)

VInvalid == [st |-> "invalid", utag |-> "none", uid |-> 0]
VRaised == [st |-> "raised", utag |-> "none", uid |-> 0]
VValid(utag, uid) == [st |-> "valid", utag |-> utag, uid |-> uid]
NotCalled == [st |-> "notcalled", utag |-> "none", uid |-> 0]

\* json.loads(user_str): an object with its id, or another JSON value
UserData(v) ==
    IF v.tag = "userjson" THEN VValid("obj", v.n) ELSE VValid("other", v.n)

Expired_AtBoundary(t, auth_date) == t - auth_date >= AuthWindow

\* line 79: now - auth_date > 86400
Expired(t, auth_date) == t - auth_date > AuthWindow

\* The body of the try block of verify_telegram_init_data; "raised" stands
\* for an exception leaving the body.
VerifyBody(b, t) ==
    IF b = <<>> THEN VInvalid
    ELSE IF "hash" \notin ParsedKeys(b) THEN VInvalid
    ELSE LET received_hash == FirstValue(b, "hash")
             calculated_hash == HmacHex(BotSecret, data_check_string(b))
         IN  IF ~IsAscii(received_hash) THEN VRaised
             ELSE IF calculated_hash # received_hash THEN VInvalid
             ELSE IF /\ "auth_date" \in ParsedKeys(b)
                     /\ ~IsInt(FirstValue(b, "auth_date"))
                  THEN VRaised
             ELSE IF /\ "auth_date" \in ParsedKeys(b)
                     /\ Expired(t, FirstValue(b, "auth_date").n)
                  THEN VInvalid
             ELSE IF "user" \notin ParsedKeys(b) THEN VValid("none", 0)
             ELSE IF ~IsJson(FirstValue(b, "user")) THEN VRaised
             ELSE UserData(FirstValue(b, "user"))

CatchAll_Propagates(r) == r

\* try: ... except Exception: return False, None
CatchAll(r) == IF r.st = "raised" THEN VInvalid ELSE r

verify_telegram_init_data(b, t) == CatchAll(VerifyBody(b, t))


-----------------------------------------------------------------------------
(* get_user_id_from_request: signed header, then X-User-Id, then ?user_id  *)

Absent == Blank     \* a header or query parameter that is missing or empty

NoId == [kind |-> "none", id |-> 0]
GotId(i) == [kind |-> "id", id |-> i]
Raises == [kind |-> "raise", id |-> 0]

\* int(text) of a header or query value: the id, or ValueError (pass)
FromText(v, otherwise) == IF IsInt(v) THEN GotId(v.n) ELSE otherwise

get_user_id_from_request_HeaderFirst(init_data, t, x_user_id, user_id_query) ==
    LET res == verify_telegram_init_data(init_data, t)
        fromSigned == IF init_data # <<>> /\ res.st = "valid" /\ res.utag = "obj"
                      THEN GotId(res.uid) ELSE NoId
        fromQuery == IF user_id_query = Absent THEN fromSigned
                     ELSE FromText(user_id_query, fromSigned)
    IN  IF x_user_id = Absent THEN fromQuery ELSE FromText(x_user_id, fromQuery)

get_user_id_from_request_RejectsBadSession(init_data, t, x_user_id, user_id_query) ==
    LET res == verify_telegram_init_data(init_data, t)
        fromQuery == IF user_id_query = Absent THEN NoId
                     ELSE FromText(user_id_query, NoId)
        fromHeader == IF x_user_id = Absent THEN fromQuery
                      ELSE FromText(x_user_id, fromQuery)
    IN  IF init_data # <<>> /\ (res.st # "valid" \/ res.utag = "none")
        THEN NoId
        ELSE IF init_data # <<>> /\ res.utag = "obj" THEN GotId(res.uid)
        ELSE IF init_data # <<>> /\ res.utag = "other" /\ res.uid # 0 THEN Raises
        ELSE fromHeader

get_user_id_from_request(init_data, t, x_user_id, user_id_query) ==
    LET res == verify_telegram_init_data(init_data, t)
        fromQuery == IF user_id_query = Absent THEN NoId
                     ELSE FromText(user_id_query, NoId)
        fromHeader == IF x_user_id = Absent THEN fromQuery
                      ELSE FromText(x_user_id, fromQuery)
    IN  IF init_data # <<>> /\ res.st = "valid" /\ res.utag = "obj"
        THEN GotId(res.uid)
        \* data['user'] is a non-zero JSON number: .get raises AttributeError
        ELSE IF init_data # <<>> /\ res.st = "valid" /\ res.utag = "other" /\ res.uid # 0
        THEN Raises
        ELSE fromHeader

\* `if not user_id`: None and 0 are both falsy
Falsy(rid) == rid.kind = "none" \/ (rid.kind = "id" /\ rid.id = 0)

-----------------------------------------------------------------------------
(* The repository (database.db) and the tables it keeps *)

Ids == {1, 2}
ADMIN_ID == 2

Kinds == {"free", "premium"}

NoUser == [exists |-> FALSE, requests_left |-> 0, premium_requests |-> 0,
           is_banned |-> FALSE, agreed_rules |-> FALSE]

UserRow(rl, pr, banned, agreed) ==
    [exists |-> TRUE, requests_left |-> rl, premium_requests |-> pr,
     is_banned |-> banned, agreed_rules |-> agreed]

\* the column that holds the balance of a kind
Balance(row, kind) ==
    IF kind = "premium" THEN row.premium_requests ELSE row.requests_left

SetBalance(row, kind, v) ==
    IF kind = "premium" THEN [row EXCEPT !.premium_requests = v]
    ELSE [row EXCEPT !.requests_left = v]

\* db.get_user(user_id)
db_get_user(tbl, id) == IF id \in Ids THEN tbl[id] ELSE NoUser

db_decrement_WritesBack(tbl, id, kind) ==
    [tbl EXCEPT ![id] = SetBalance(@, kind, Balance(users0[id], kind) - 1)]

\* db.use_free_request / db.use_premium_request, second half: the UPDATE
\* ... SET <column> = <column> - 1, which carries no condition on the balance
db_decrement(tbl, id, kind) ==
    [tbl EXCEPT ![id] = SetBalance(@, kind, Balance(@, kind) - 1)]

\* db.add_requests_to_user(user_id, amount, is_premium): one UPDATE
db_add_requests_to_user(tbl, id, amount, is_premium) ==
    IF id \in Ids /\ tbl[id].exists
    THEN [tbl EXCEPT ![id] = SetBalance(@, IF is_premium THEN "premium" ELSE "free",
                              Balance(@, IF is_premium THEN "premium" ELSE "free") + amount)]
    ELSE tbl

\* db.increment_forbidden_attempts(user_id)
db_increment_forbidden_attempts(cnt, id) ==
    IF id \in Ids THEN [cnt EXCEPT ![id] = @ + 1] ELSE cnt

\* db.add_history(user_id, question, cards, response, reading_type, is_premium)
db_add_history(h, id, interpretation, is_premium) ==
    Append(h, [user_id |-> id, response |-> interpretation, is_premium |-> is_premium])

\* the Interactions of a user that spent a given kind
Interactions(h, id, kind) ==
    {i \in DOMAIN h : h[i].user_id = id /\ h[i].is_premium = (kind = "premium")}

-----------------------------------------------------------------------------
(* HTTP responses *)

NoResponse == [status |-> 0, error |-> "", reading |-> <<>>]
ErrorResponse(status, error) == [status |-> status, error |-> error, reading |-> <<>>]
ReadingResponse(cards, interpretation, is_premium) ==
    [status |-> 200, error |-> "",
     reading |-> <<[cards |-> cards, interpretation |-> interpretation,
                    is_premium |-> is_premium]>>]

MaxQuestion == 300


-----------------------------------------------------------------------------
(* Inputs of the requests *)

\* init_data as the platform signs it: the hash is the HMAC of every field
\* sorted as key=value lines
RECURSIVE FieldLines(_)
FieldLines(b) ==
    IF b = <<>> THEN <<>>
    ELSE IF Head(b).k = "hash" THEN FieldLines(Tail(b))
    ELSE <<Head(b)>> \o FieldLines(Tail(b))

PlatformCheckString(b) == SortLines(FieldLines(b))

Signed(fields, secret) ==
    Append(fields, [k |-> "hash", v |-> HmacHex(secret, PlatformCheckString(fields))])

\* X-Telegram-Init-Data of a request: none, a session of user i signed by the
\* platform, the same signed with another key, a signed session whose user
\* is the JSON number i
HeaderBlobs ==
    {<<>>}
    \cup {Signed(<<[k |-> "user", v |-> UserJson(i)]>>, BotSecret) : i \in Ids}
    \cup {Signed(<<[k |-> "user", v |-> UserJson(1)]>>, OtherSecret)}
    \cup {Signed(<<[k |-> "user", v |-> IntVal(1)]>>, BotSecret)}

\* X-User-Id and ?user_id
IdTexts == {Absent, Txt(1), IntVal(0)} \cup {IntVal(i) : i \in Ids}

\* what get_user_id_from_request can return for these inputs
ResolvedIds(t, queries) ==
    {get_user_id_from_request(init_data, t, x_user_id, user_id_query) :
        init_data \in HeaderBlobs, x_user_id \in IdTexts, user_id_query \in queries}

\* len(question.strip())
QuestionLens == {0, 1, MaxQuestion, MaxQuestion + 1}

-----------------------------------------------------------------------------
(* handle_reading *)

Slots == 1..MaxReqs

\* A coroutine: where it is suspended and the locals that are still read
\* after that point (requests_left and premium_requests are read only by
\* the pre-check, in the step that sets them; the content of cards is
\* opaque to the handler).
IdleReq == [pc |-> "idle", user_id |-> 0, use_premium |-> FALSE,
            interpretation |-> "", response |-> NoResponse]

\* the handler returns: who asked and what was answered stay
Return(q, resp) ==
    [IdleReq EXCEPT !.pc = "done", !.user_id = q.user_id, !.response = resp]

\* the balance the pre-check reads (lines 343-354)
CheckKind(use_premium) == IF use_premium THEN "premium" ELSE "free"

DeductKind_Swapped(use_premium) == IF use_premium THEN "free" ELSE "premium"

\* the balance the deduction spends (lines 398-401)
DeductKind(use_premium) == IF use_premium THEN "premium" ELSE "free"

InsufficientError(kind) ==
    IF kind = "premium" THEN "no_premium_requests" ELSE "no_free_requests"

CountViolation_Skipped(cnt, id) == cnt

\* line 325: the handler has the repository count the violation
CountViolation(cnt, id) == db_increment_forbidden_attempts(cnt, id)

\* line 308, `if not question` after .strip()
QuestionMissing(qlen) == qlen = 0

TooLong_AtBoundary(qlen) == qlen >= MaxQuestion

\* line 314, len(question) > 300
TooLong(qlen) == qlen > MaxQuestion

ReadingEntryOf_LookupFirst(r, rid, qlen, is_forbidden, use_premium) ==
    /\ req[r].pc = "idle"
    /\ LET q == [IdleReq EXCEPT !.user_id = rid.id, !.use_premium = use_premium]
       IN  IF rid.kind = "raise"
           THEN /\ req' = [req EXCEPT ![r] = Return(IdleReq, ErrorResponse(500, "internal"))]
                /\ UNCHANGED forbidden_attempts
           ELSE IF Falsy(rid)
           THEN /\ req' = [req EXCEPT ![r] = Return(IdleReq, ErrorResponse(401, "Unauthorized"))]
                /\ UNCHANGED forbidden_attempts
           ELSE IF QuestionMissing(qlen)
           THEN /\ req' = [req EXCEPT ![r] = Return(q, ErrorResponse(400, "Question is required"))]
                /\ UNCHANGED forbidden_attempts
           ELSE IF TooLong(qlen)
           THEN /\ req' = [req EXCEPT ![r] = Return(q, ErrorResponse(400, "Question too long"))]
                /\ UNCHANGED forbidden_attempts
           ELSE IF ~db_get_user(users, rid.id).exists
           THEN /\ req' = [req EXCEPT ![r] = Return(q, ErrorResponse(404, "User not found"))]
                /\ UNCHANGED forbidden_attempts
           ELSE IF is_forbidden
           THEN /\ forbidden_attempts' = CountViolation(forbidden_attempts, rid.id)
                /\ req' = [req EXCEPT ![r] = Return(q, ErrorResponse(400, "forbidden_keywords"))]
           ELSE /\ req' = [req EXCEPT ![r] = [q EXCEPT !.pc = "get_user"]]
                /\ UNCHANGED forbidden_attempts
    /\ UNCHANGED <<users, users0, grants, history, verifyVars, apiVars>>

\* lines 295-330: identity, validation, forbidden-topic filter, for a request
\* whose caller resolves to rid, whose question has qlen characters after
\* .strip() and matches the forbidden patterns or not
ReadingEntryOf(r, rid, qlen, is_forbidden, use_premium) ==
    /\ req[r].pc = "idle"
    /\ LET q == [IdleReq EXCEPT !.user_id = rid.id, !.use_premium = use_premium]
       IN  IF rid.kind = "raise"
           THEN /\ req' = [req EXCEPT ![r] = Return(IdleReq, ErrorResponse(500, "internal"))]
                /\ UNCHANGED forbidden_attempts
           ELSE IF Falsy(rid)
           THEN /\ req' = [req EXCEPT ![r] = Return(IdleReq, ErrorResponse(401, "Unauthorized"))]
                /\ UNCHANGED forbidden_attempts
           ELSE IF QuestionMissing(qlen)
           THEN /\ req' = [req EXCEPT ![r] = Return(q, ErrorResponse(400, "Question is required"))]
                /\ UNCHANGED forbidden_attempts
           ELSE IF TooLong(qlen)
           THEN /\ req' = [req EXCEPT ![r] = Return(q, ErrorResponse(400, "Question too long"))]
                /\ UNCHANGED forbidden_attempts
           ELSE IF is_forbidden
           THEN /\ forbidden_attempts' = CountViolation(forbidden_attempts, rid.id)
                /\ req' = [req EXCEPT ![r] = Return(q, ErrorResponse(400, "forbidden_keywords"))]
           ELSE /\ req' = [req EXCEPT ![r] = [q EXCEPT !.pc = "get_user"]]
                /\ UNCHANGED forbidden_attempts
    /\ UNCHANGED <<users, users0, grants, history, verifyVars, apiVars>>

\* a request arrives, with any caller and any question
ReadingEntry(r) ==
    /\ req[r].pc = "idle"
    /\ \A q \in Slots : q < r => req[q].pc # "idle"   \* slots are taken in order
    /\ \E rid \in ResolvedIds(now, IdTexts),
          qlen \in QuestionLens, is_forbidden \in BOOLEAN, use_premium \in BOOLEAN :
        ReadingEntryOf(r, rid, qlen, is_forbidden, use_premium)

ReadingGetUser_DeductsAtCheck(r) ==
    /\ req[r].pc = "get_user"
    /\ LET q == req[r]
           user == db_get_user(users, q.user_id)
           kind == CheckKind(q.use_premium)
       IN  IF ~user.exists
           THEN /\ req' = [req EXCEPT ![r] = Return(q, ErrorResponse(404, "User not found"))]
                /\ UNCHANGED users
           ELSE IF Balance(user, kind) <= 0
           THEN /\ req' = [req EXCEPT ![r] = Return(q, ErrorResponse(400, InsufficientError(kind)))]
                /\ UNCHANGED users
           ELSE /\ req' = [req EXCEPT ![r].pc = "generate"]
                /\ users' = db_decrement(users, q.user_id, kind)
    /\ UNCHANGED <<users0, grants, forbidden_attempts, history, verifyVars, apiVars>>

\* lines 332-354: user lookup and balance pre-check
ReadingGetUser(r) ==
    /\ req[r].pc = "get_user"
    /\ LET q == req[r]
           user == db_get_user(users, q.user_id)
           kind == CheckKind(q.use_premium)
       IN  IF ~user.exists
           THEN req' = [req EXCEPT ![r] = Return(q, ErrorResponse(404, "User not found"))]
           ELSE IF Balance(user, kind) <= 0
           THEN req' = [req EXCEPT ![r] = Return(q, ErrorResponse(400, InsufficientError(kind)))]
           ELSE req' = [req EXCEPT ![r].pc = "generate"]
    /\ UNCHANGED <<users, users0, grants, forbidden_attempts, history, verifyVars, apiVars>>

ReadingGenerate_ChargesOnFailure(r) ==
    /\ req[r].pc = "generate"
    /\ \E answer \in {"none", "nochoices", "text"} :
        IF answer = "none"
        THEN /\ req' = [req EXCEPT ![r] = Return(req[r], ErrorResponse(503, "AI service unavailable"))]
             /\ users' = db_decrement(users, req[r].user_id, DeductKind(req[r].use_premium))
        ELSE /\ req' = [req EXCEPT ![r] = [@ EXCEPT !.pc = "use_request",
                          !.interpretation = IF answer = "text" THEN "text" ELSE ""]]
             /\ UNCHANGED users
    /\ UNCHANGED <<users0, grants, forbidden_attempts, history, verifyVars, apiVars>>

Usable_NeedsChoices(answer) == answer = "text"

\* line 386, `if not response`: only an empty response is not used
Usable(answer) == answer # "none"

\* lines 356-395: the cards, the context read, the generator call and what it
\* returned: nothing, a response without 'choices', a response with a text
ReadingGenerate(r) ==
    /\ req[r].pc = "generate"
    /\ \E answer \in {"none", "nochoices", "text"} :
        IF ~Usable(answer)
        THEN req' = [req EXCEPT ![r] = Return(req[r], ErrorResponse(503, "AI service unavailable"))]
        ELSE req' = [req EXCEPT ![r] = [@ EXCEPT !.pc = "use_request",
                         !.interpretation = IF answer = "text" THEN "text" ELSE ""]]
    /\ UNCHANGED <<users, users0, grants, forbidden_attempts, history, verifyVars, apiVars>>

\* lines 397-401, first half of db.use_*_request: the balance is read again
ReadingUseRequest(r) ==
    /\ req[r].pc = "use_request"
    /\ LET q == req[r]
           user == db_get_user(users, q.user_id)
       IN  IF user.exists /\ Balance(user, DeductKind(q.use_premium)) > 0
           THEN req' = [req EXCEPT ![r].pc = "decrement"]
           ELSE req' = [req EXCEPT ![r].pc = "add_history"]
    /\ UNCHANGED <<users, users0, grants, forbidden_attempts, history, verifyVars, apiVars>>

\* second half of db.use_*_request: the UPDATE
ReadingDecrement(r) ==
    /\ req[r].pc = "decrement"
    /\ users' = db_decrement(users, req[r].user_id, DeductKind(req[r].use_premium))
    /\ req' = [req EXCEPT ![r].pc = "add_history"]
    /\ UNCHANGED <<users0, grants, forbidden_attempts, history, verifyVars, apiVars>>

ReadingAddHistory_Unrecorded(r) ==
    /\ req[r].pc = "add_history"
    /\ req' = [req EXCEPT ![r].pc = "respond"]
    /\ UNCHANGED <<users, users0, grants, forbidden_attempts, history, verifyVars, apiVars>>

\* lines 403-411
ReadingAddHistory(r) ==
    /\ req[r].pc = "add_history"
    /\ history' = db_add_history(history, req[r].user_id, req[r].interpretation,
                                 req[r].use_premium)
    /\ req' = [req EXCEPT ![r].pc = "respond"]
    /\ UNCHANGED <<users, users0, grants, forbidden_attempts, verifyVars, apiVars>>

\* lines 413-421
ReadingRespond(r) ==
    /\ req[r].pc = "respond"
    /\ req' = [req EXCEPT ![r] = Return(req[r],
                   ReadingResponse("cards", req[r].interpretation, req[r].use_premium))]
    /\ UNCHANGED <<users, users0, grants, forbidden_attempts, history, verifyVars, apiVars>>

-----------------------------------------------------------------------------
(* handle_admin_add_requests *)

\* units granted so far
RECURSIVE TotalGranted(_)
TotalGranted(g) == IF g = <<>> THEN 0 ELSE Head(g).amount + TotalGranted(Tail(g))

AdminAddRequests ==
    /\ TotalGranted(grants) < MaxGranted
    /\ \E rid \in ResolvedIds(now, {Absent}), target \in Ids \cup {0},
          amount \in 1..(MaxGranted - TotalGranted(grants)), is_premium \in BOOLEAN :
            IF rid.kind # "id" \/ rid.id # ADMIN_ID
            THEN UNCHANGED <<users, grants>>    \* 403 (or 500)
            ELSE IF target = 0
            THEN UNCHANGED <<users, grants>>    \* 400 user_id required
            ELSE /\ users' = db_add_requests_to_user(users, target, amount, is_premium)
                 /\ grants' = IF users' = users THEN grants
                              ELSE Append(grants, [user_id |-> target, amount |-> amount,
                                                   is_premium |-> is_premium])
    /\ UNCHANGED <<users0, forbidden_attempts, history, req, verifyVars, apiVars>>

\* units granted to a user, of a kind
RECURSIVE SumGrants(_, _, _)
SumGrants(g, id, kind) ==
    IF g = <<>> THEN 0
    ELSE (IF Head(g).user_id = id /\ Head(g).is_premium = (kind = "premium")
          THEN Head(g).amount ELSE 0) + SumGrants(Tail(g), id, kind)

-----------------------------------------------------------------------------
(* The catch-all every handler ends with, and the guards they begin with *)

\* an exception raised inside the try block of a handler
Thrown == ErrorResponse(0, "exception")

HandlerCatch_Propagates(outcome) == outcome

\* except Exception as e: return web.json_response({'success': False,
\* 'error': str(e)}, status=500)
HandlerCatch(outcome) ==
    IF outcome = Thrown THEN ErrorResponse(500, "internal") ELSE outcome

\* user_id = get_user_id_from_request(request); if not user_id: return 401.
\* NoResponse: the handler goes on.
RequireUser(rid) ==
    IF rid.kind = "raise" THEN Thrown
    ELSE IF Falsy(rid) THEN ErrorResponse(401, "Unauthorized")
    ELSE NoResponse

RequireAdmin_AnyCaller(rid) ==
    IF rid.kind = "raise" THEN Thrown
    ELSE IF Falsy(rid) THEN ErrorResponse(403, "Forbidden")
    ELSE NoResponse

\* user_id = get_user_id_from_request(request); if user_id != ADMIN_ID:
\* return 403
RequireAdmin(rid) ==
    IF rid.kind = "raise" THEN Thrown
    ELSE IF rid.kind = "none" \/ rid.id # ADMIN_ID THEN ErrorResponse(403, "Forbidden")
    ELSE NoResponse

-----------------------------------------------------------------------------
(* The endpoints that answer without suspending between two writes: the    *)
(* whole handler is one step.  fault is the collaborator call (the first,  *)
(* the second, ...) that raises, 0 when none does.                         *)

MaxHistory == 11    \* Interactions a user starts with, at most

NoPage == [page |-> 0, limit |-> 0, offset |-> 0, total |-> 0, total_pages |-> 0,
           records |-> {}]

NoCall == [handler |-> "none", pc |-> "idle", init_data |-> <<>>,
           x_user_id |-> Absent, user_id_query |-> Absent, rid |-> NoId,
           db_calls |-> 0, raised |-> FALSE, response |-> NoResponse,
           pagination |-> NoPage,
           question_len |-> 0, is_forbidden |-> FALSE, use_premium |-> FALSE]

\* what a handler body comes to: its outcome, the repository calls it made,
\* the pagination block of its answer
Outcome(out, db_calls) == [out |-> out, db_calls |-> db_calls, pagination |-> NoPage]

\* the handler of a request c returns: who was resolved, what the body came
\* to and what is answered
Answered(c, o) ==
    [NoCall EXCEPT !.handler = c.handler, !.pc = "done", !.rid = c.rid,
                   !.db_calls = o.db_calls, !.raised = (o.out = Thrown),
                   !.response = HandlerCatch(o.out), !.pagination = o.pagination]

Ok == [status |-> 200, error |-> "", reading |-> <<>>]

\* handle_get_user: db.get_user, get_user_stats, get_user_level_info,
\* get_user_achievements
get_user_body(rid, tbl, fault) ==
    IF RequireUser(rid) # NoResponse THEN Outcome(RequireUser(rid), 0)
    ELSE IF fault = 1 THEN Outcome(Thrown, 1)
    ELSE IF ~db_get_user(tbl, rid.id).exists
         THEN Outcome(ErrorResponse(404, "User not found"), 1)
    ELSE IF fault \in 2..4 THEN Outcome(Thrown, fault)
    ELSE Outcome(Ok, 4)

\* handle_achievements: db.get_user_achievements, db.get_user_level_info
achievements_body(rid, fault) ==
    IF RequireUser(rid) # NoResponse THEN Outcome(RequireUser(rid), 0)
    ELSE IF fault \in 1..2 THEN Outcome(Thrown, fault)
    ELSE Outcome(Ok, 2)

\* handle_rates: db.get_all_rates; the caller is not resolved
rates_body(fault) ==
    IF fault = 1 THEN Outcome(Thrown, 1) ELSE Outcome(Ok, 1)

\* handle_admin_stats: the sqlite3 queries
admin_stats_body(rid, fault) ==
    IF RequireAdmin(rid) # NoResponse THEN Outcome(RequireAdmin(rid), 0)
    ELSE IF fault = 1 THEN Outcome(Thrown, 1)
    ELSE Outcome(Ok, 1)

\* int(request.query.get(name, default)): the integer, or ValueError
QueryInt(text, default) == IF text = Absent THEN IntVal(default) ELSE text

\* handle_admin_users: page and limit, then the sqlite3 queries
admin_users_body(rid, page_text, limit_text, fault) ==
    IF RequireAdmin(rid) # NoResponse THEN Outcome(RequireAdmin(rid), 0)
    ELSE IF ~IsInt(QueryInt(page_text, 0)) \/ ~IsInt(QueryInt(limit_text, 50))
         THEN Outcome(Thrown, 0)
    ELSE IF fault = 1 THEN Outcome(Thrown, 1)
    ELSE Outcome(Ok, 1)

\* a // b as Python computes it: the quotient rounded towards minus infinity
FloorDiv(a, b) == IF b > 0 THEN a \div b ELSE (-a) \div (-b)

\* line 465: (total + limit - 1) // limit if total > 0 else 1
total_pages(total, limit) ==
    IF total > 0 THEN FloorDiv(total + limit - 1, limit) ELSE 1

\* db.get_total_history_count(user_id)
db_get_total_history_count(h, id) ==
    Cardinality({i \in DOMAIN h : h[i].user_id = id})

\* db.get_history(user_id, limit, offset): the ranks, counted from 0 in the
\* order of the repository, of the records of one page (LIMIT limit OFFSET
\* offset; a negative LIMIT is no limit)
db_get_history(h, id, limit, offset) ==
    {k \in 0..(db_get_total_history_count(h, id) - 1) :
        k >= offset /\ (limit < 0 \/ k < offset + limit)}

\* handle_history: page and limit, then db.get_history,
\* db.get_total_history_count, db.get_user_payments, then the answer
history_body(rid, page_text, limit_text, h, fault) ==
    IF RequireUser(rid) # NoResponse THEN Outcome(RequireUser(rid), 0)
    ELSE IF ~IsInt(QueryInt(page_text, 0)) \/ ~IsInt(QueryInt(limit_text, 10))
         THEN Outcome(Thrown, 0)
    ELSE IF fault \in 1..3 THEN Outcome(Thrown, fault)
    ELSE LET page == QueryInt(page_text, 0).n
             limit == QueryInt(limit_text, 10).n
             offset == page * limit
             total == db_get_total_history_count(h, rid.id)
         IN  IF total > 0 /\ limit = 0 THEN Outcome(Thrown, 3)   \* ZeroDivisionError
             ELSE [out |-> Ok, db_calls |-> 3,
                   pagination |-> [page |-> page, limit |-> limit, offset |-> offset,
                                   total |-> total,
                                   total_pages |-> total_pages(total, limit),
                                   records |-> db_get_history(h, rid.id, limit, offset)]]

\* handle_admin_add_requests: request.json(), then db.add_requests_to_user
admin_add_requests_body(rid, target, fault) ==
    IF RequireAdmin(rid) # NoResponse THEN Outcome(RequireAdmin(rid), 0)
    ELSE IF fault = 1 THEN Outcome(Thrown, 0)
    ELSE IF target = 0 THEN Outcome(ErrorResponse(400, "user_id required"), 0)
    ELSE IF fault = 2 THEN Outcome(Thrown, 1)
    ELSE Outcome(Ok, 1)

\* the row db.add_user creates
NewUserRow == UserRow(0, 0, FALSE, FALSE)

\* db.add_user(user_id, username, first_name, last_name)
db_add_user(tbl, id) ==
    IF id \in Ids /\ ~tbl[id].exists THEN [tbl EXCEPT ![id] = NewUserRow] ELSE tbl

AuthRejects_OnlyBadHash(res) == res.st # "valid"

\* line 184: not is_valid or not data or not data.get('user')
AuthRejects(res) ==
    res.st # "valid" \/ res.utag = "none" \/ (res.utag = "other" /\ res.uid = 0)

\* handle_auth: request.json(), the verifier, db.get_user, for a new user
\* db.add_user and db.get_user, then get_user_stats, get_user_level_info,
\* get_user_achievements
auth_body(init_data, t, tbl, fault) ==
    LET res == verify_telegram_init_data(init_data, t)
    IN  IF fault = 1 THEN Outcome(Thrown, 0)
        ELSE IF AuthRejects(res)
             THEN Outcome(ErrorResponse(401, "Invalid initData"), 0)
        ELSE IF res.utag = "other" THEN Outcome(Thrown, 0)   \* user_tg['id'] of a number
        ELSE IF fault \in 2..7 THEN Outcome(Thrown, fault - 1)
        ELSE Outcome(Ok, 7)

\* the users table after handle_auth: the row is there once db.add_user ran
auth_users(init_data, t, tbl, fault) ==
    LET res == verify_telegram_init_data(init_data, t)
    IN  IF res.st = "valid" /\ res.utag = "obj" /\ fault \notin 1..3
        THEN db_add_user(tbl, res.uid) ELSE tbl

\* ?page and ?limit
PageTexts == {Absent, IntVal(0), IntVal(1), Txt(1)}
LimitTexts == {Absent, IntVal(-2), IntVal(-1), IntVal(0), IntVal(1), IntVal(2), Txt(1)}

\* the endpoints of this family, and those whose handler begins with
\* get_user_id_from_request
Endpoints == {"user", "history", "achievements", "rates", "auth",
              "admin_stats", "admin_users", "admin_add_requests"}
Resolving == Endpoints \ {"rates", "auth"}

\* X-Telegram-Init-Data (initData for handle_auth) of these requests: the
\* sessions above, a session of user 1 the platform signed more than 24 hours
\* ago, and a fresh one it signed for no user
SessionBlobs ==
    HeaderBlobs
    \cup {Signed(<<[k |-> "auth_date", v |-> IntVal(T0 - AuthWindow - 1)],
                   [k |-> "user", v |-> UserJson(1)]>>, BotSecret),
          Signed(<<[k |-> "auth_date", v |-> IntVal(T0)]>>, BotSecret)}

\* A request arrives and the first line of its handler resolves the caller.
\* handle_auth reads initData from the body; handle_rates reads nothing.
Receive(h) ==
    /\ workload = "query"
    /\ call.pc = "idle"
    /\ \E init_data \in SessionBlobs, x_user_id \in IdTexts, user_id_query \in IdTexts :
        /\ h \notin Resolving => x_user_id = Absent /\ user_id_query = Absent
        /\ h = "rates" => init_data = <<>>
        /\ call' = [NoCall EXCEPT !.handler = h, !.pc = "received",
                       !.init_data = init_data, !.x_user_id = x_user_id,
                       !.user_id_query = user_id_query,
                       !.rid = IF h \in Resolving
                               THEN get_user_id_from_request(init_data, now,
                                                             x_user_id, user_id_query)
                               ELSE NoId]
    /\ UNCHANGED <<verifyVars, ledgerVars, workload, pay, payments, rates, auth>>

Received(h) == call.pc = "received" /\ call.handler = h

HandleGetUser ==
    /\ Received("user")
    /\ \E fault \in 0..4 :
        call' = Answered(call, get_user_body(call.rid, users, fault))
    /\ UNCHANGED <<verifyVars, ledgerVars, workload, pay, payments, rates, auth>>

HandleHistory ==
    /\ Received("history")
    /\ \E page_text \in PageTexts, limit_text \in LimitTexts, fault \in 0..3 :
        call' = Answered(call, history_body(call.rid, page_text, limit_text, history, fault))
    /\ UNCHANGED <<verifyVars, ledgerVars, workload, pay, payments, rates, auth>>

HandleAchievements ==
    /\ Received("achievements")
    /\ \E fault \in 0..2 :
        call' = Answered(call, achievements_body(call.rid, fault))
    /\ UNCHANGED <<verifyVars, ledgerVars, workload, pay, payments, rates, auth>>

HandleRates ==
    /\ Received("rates")
    /\ \E fault \in 0..1 :
        call' = Answered(call, rates_body(fault))
    /\ UNCHANGED <<verifyVars, ledgerVars, workload, pay, payments, rates, auth>>

HandleAuth ==
    /\ Received("auth")
    /\ \E fault \in 0..7 :
        /\ call' = Answered(call, auth_body(call.init_data, now, users, fault))
        /\ users' = auth_users(call.init_data, now, users, fault)
    /\ UNCHANGED <<verifyVars, users0, grants, forbidden_attempts, history, req,
                   workload, pay, payments, rates, auth>>

HandleAdminStats ==
    /\ Received("admin_stats")
    /\ \E fault \in 0..1 :
        call' = Answered(call, admin_stats_body(call.rid, fault))
    /\ UNCHANGED <<verifyVars, ledgerVars, workload, pay, payments, rates, auth>>

HandleAdminUsers ==
    /\ Received("admin_users")
    /\ \E page_text \in PageTexts, limit_text \in {Absent, IntVal(1), Txt(1)},
          fault \in 0..1 :
        call' = Answered(call, admin_users_body(call.rid, page_text, limit_text, fault))
    /\ UNCHANGED <<verifyVars, ledgerVars, workload, pay, payments, rates, auth>>

\* handle_admin_add_requests, with its answer
HandleAdminAddRequests ==
    /\ Received("admin_add_requests")
    /\ \E target \in Ids \cup {0}, amount \in 1..MaxGranted, is_premium \in BOOLEAN,
          fault \in 0..2 :
        LET o == admin_add_requests_body(call.rid, target, fault)
        IN  /\ o.out = Ok => TotalGranted(grants) + amount <= MaxGranted
            /\ call' = Answered(call, o)
            /\ users' = IF o.out = Ok
                        THEN db_add_requests_to_user(users, target, amount, is_premium)
                        ELSE users
            /\ grants' = IF users' = users THEN grants
                         ELSE Append(grants, [user_id |-> target, amount |-> amount,
                                              is_premium |-> is_premium])
    /\ UNCHANGED <<verifyVars, users0, forbidden_attempts, history, req,
                   workload, pay, payments, rates, auth>>

\* the answer is sent; the next request may arrive
Deliver ==
    /\ call.pc = "done"
    /\ call' = NoCall
    /\ UNCHANGED <<verifyVars, ledgerVars, workload, pay, payments, rates, auth>>

-----------------------------------------------------------------------------
(* handle_payment *)

MaxPays == 2        \* handle_payment requests per behaviour

PaySlots == 1..MaxPays

Rate(key, requests, price) == [package_key |-> key, requests |-> requests, price |-> price]
NoRate == Rate("", 0, 0)

\* config.PAYMENT_OPTIONS, the static default catalog: key -> requests, price
PAYMENT_OPTIONS ==
    [k \in {"buy_1", "buy_cfg"} |->
        IF k = "buy_1" THEN [requests |-> 1, price |-> 5]
        ELSE [requests |-> 3, price |-> 7]]

\* the contents the rates table may have: nothing, or rows of which one
\* has a key of the static catalog, at another price
RateCatalogs ==
    {<<>>, <<Rate("buy_db", 2, 6)>>, <<Rate("buy_db", 2, 6), Rate("buy_1", 1, 4)>>}

\* body.get('package_key', 'buy_1')
NoKey == "<missing>"
BodyKeys == {NoKey, "buy_1", "buy_db", "buy_cfg", "bogus"}
PackageKey(body_key) == IF body_key = NoKey THEN "buy_1" ELSE body_key

\* lines 501-505: the first row of rates with the key
RECURSIVE FindRate(_, _)
FindRate(rs, key) ==
    IF rs = <<>> THEN NoRate
    ELSE IF Head(rs).package_key = key THEN Head(rs)
    ELSE FindRate(Tail(rs), key)

ResolveRate_ConfigFirst(rs, key) ==
    IF key \in DOMAIN PAYMENT_OPTIONS
    THEN Rate(key, PAYMENT_OPTIONS[key].requests, PAYMENT_OPTIONS[key].price)
    ELSE FindRate(rs, key)

\* lines 499-523: the row of the repository, else the entry of
\* PAYMENT_OPTIONS, else nothing (Invalid package)
ResolveRate(rs, key) ==
    IF FindRate(rs, key) # NoRate THEN FindRate(rs, key)
    ELSE IF key \in DOMAIN PAYMENT_OPTIONS
    THEN Rate(key, PAYMENT_OPTIONS[key].requests, PAYMENT_OPTIONS[key].price)
    ELSE NoRate

NoLabel == [user_id |-> 0, package_key |-> "", n |-> 0]
NoPayment == [url |-> FALSE, label |-> NoLabel, amount |-> 0, requests |-> 0,
              package_key |-> ""]

IdlePay == [pc |-> "idle", user_id |-> 0, package_key |-> "", rate |-> NoRate,
            response |-> NoResponse, payment |-> NoPayment]

PayReturn(q, resp) ==
    [IdlePay EXCEPT !.pc = "done", !.user_id = q.user_id,
                    !.package_key = q.package_key, !.response = resp]

NewLabel_NoDisambiguator(tbl, user_id, package_key) ==
    [user_id |-> user_id, package_key |-> package_key, n |-> 0]

\* yoomoney_payment.generate_payment_link, the label: the user, the package
\* and a disambiguator that no earlier intent has
NewLabel(tbl, user_id, package_key) ==
    [user_id |-> user_id, package_key |-> package_key, n |-> Len(tbl) + 1]

\* yoomoney_payment.generate_payment_link, the row it persists
PaymentIntent(label, user_id, package_key, amount, requests_count) ==
    [label |-> label, user_id |-> user_id, package_key |-> package_key,
     amount |-> amount, units_granted |-> requests_count, status |-> "pending"]

\* lines 482-497: identity, then request.json()
PaymentEntry(p) ==
    /\ workload = "payment"
    /\ pay[p].pc = "idle"
    /\ \A q \in PaySlots : q < p => pay[q].pc # "idle"    \* slots are taken in order
    /\ \E rid \in ResolvedIds(now, IdTexts), body_key \in BodyKeys, fault \in 0..1 :
        IF RequireUser(rid) # NoResponse
        THEN pay' = [pay EXCEPT ![p] = PayReturn(IdlePay, HandlerCatch(RequireUser(rid)))]
        ELSE IF fault = 1
        THEN pay' = [pay EXCEPT ![p] =
                        PayReturn([IdlePay EXCEPT !.user_id = rid.id], HandlerCatch(Thrown))]
        ELSE pay' = [pay EXCEPT ![p] =
                        [IdlePay EXCEPT !.pc = "get_rates", !.user_id = rid.id,
                                        !.package_key = PackageKey(body_key)]]
    /\ UNCHANGED <<verifyVars, ledgerVars, workload, call, payments, rates, auth>>

\* lines 499-523: db.get_all_rates() and the choice of the rate
PaymentGetRates(p) ==
    /\ pay[p].pc = "get_rates"
    /\ LET rate == ResolveRate(rates, pay[p].package_key)
       IN  IF rate = NoRate
           THEN pay' = [pay EXCEPT ![p] = PayReturn(pay[p], ErrorResponse(400, "Invalid package"))]
           ELSE pay' = [pay EXCEPT ![p] = [@ EXCEPT !.pc = "link", !.rate = rate]]
    /\ UNCHANGED <<verifyVars, ledgerVars, workload, call, payments, rates, auth>>

\* lines 525-535: generate_payment_link(user_id, amount, requests_count,
\* package_key) persists the pending intent and returns (url, label), or
\* persists nothing and returns no url
PaymentLink(p) ==
    /\ pay[p].pc = "link"
    /\ \E made \in BOOLEAN :
        LET q == pay[p]
            label == NewLabel(payments, q.user_id, q.package_key)
        IN  IF made
            THEN /\ payments' = Append(payments,
                       PaymentIntent(label, q.user_id, q.package_key,
                                     q.rate.price, q.rate.requests))
                 /\ pay' = [pay EXCEPT ![p] = [@ EXCEPT !.pc = "respond",
                              !.payment = [url |-> TRUE, label |-> label,
                                           amount |-> q.rate.price,
                                           requests |-> q.rate.requests,
                                           package_key |-> q.package_key]]]
            ELSE /\ pay' = [pay EXCEPT ![p].pc = "respond"]
                 /\ UNCHANGED payments
    /\ UNCHANGED <<verifyVars, ledgerVars, workload, call, rates, auth>>

PaymentRespond_IgnoresMissingUrl(p) ==
    /\ pay[p].pc = "respond"
    /\ pay' = [pay EXCEPT ![p] = [PayReturn(pay[p], Ok) EXCEPT !.payment = pay[p].payment]]
    /\ UNCHANGED <<verifyVars, ledgerVars, workload, call, payments, rates, auth>>

\* lines 537-555: no url is 500, else the success answer with url and label
PaymentRespond(p) ==
    /\ pay[p].pc = "respond"
    /\ IF ~pay[p].payment.url
       THEN pay' = [pay EXCEPT ![p] =
                PayReturn(pay[p], ErrorResponse(500, "Failed to generate payment link"))]
       ELSE pay' = [pay EXCEPT ![p] =
                [PayReturn(pay[p], Ok) EXCEPT !.payment = pay[p].payment]]
    /\ UNCHANGED <<verifyVars, ledgerVars, workload, call, payments, rates, auth>>

\* lines 557-562: db.get_all_rates or generate_payment_link raises
PaymentRaises(p) ==
    /\ pay[p].pc \in {"get_rates", "link"}
    /\ pay' = [pay EXCEPT ![p] = PayReturn(pay[p], HandlerCatch(Thrown))]
    /\ UNCHANGED <<verifyVars, ledgerVars, workload, call, payments, rates, auth>>

-----------------------------------------------------------------------------
(* handle_auth, suspended at its awaits *)

MaxAuths == 2       \* handle_auth requests per behaviour

AuthSlots == 1..MaxAuths

\* A coroutine of handle_auth: where it is suspended, the initData of its
\* body, user_tg['id'], and whether its db.add_user created the row
IdleAuth == [pc |-> "idle", init_data |-> <<>>, user_id |-> 0, inserted |-> FALSE,
             response |-> NoResponse]

AuthReturn(q, resp) == [q EXCEPT !.pc = "done", !.response = resp]

\* lines 178-191: the body, the verifier, user_tg['id']
AuthEntry(a) ==
    /\ workload = "auth"
    /\ auth[a].pc = "idle"
    /\ \A q \in AuthSlots : q < a => auth[q].pc # "idle"   \* slots are taken in order
    /\ \E init_data \in SessionBlobs :
        LET res == verify_telegram_init_data(init_data, now)
            q == [IdleAuth EXCEPT !.init_data = init_data]
        IN  IF AuthRejects(res)
            THEN auth' = [auth EXCEPT ![a] = AuthReturn(q, ErrorResponse(401, "Invalid initData"))]
            ELSE IF res.utag = "other"      \* user_tg['id'] of a number raises
            THEN auth' = [auth EXCEPT ![a] = AuthReturn(q, HandlerCatch(Thrown))]
            ELSE auth' = [auth EXCEPT ![a] = [q EXCEPT !.pc = "get_user", !.user_id = res.uid]]
    /\ UNCHANGED <<verifyVars, ledgerVars, workload, call, pay, payments, rates>>

\* lines 194-196: db.get_user and `if not user`
AuthGetUser(a) ==
    /\ auth[a].pc = "get_user"
    /\ auth' = [auth EXCEPT ![a].pc = IF db_get_user(users, auth[a].user_id).exists
                                      THEN "stats" ELSE "add_user"]
    /\ UNCHANGED <<verifyVars, ledgerVars, workload, call, pay, payments, rates>>

\* lines 198-203: db.add_user
AuthAddUser(a) ==
    /\ auth[a].pc = "add_user"
    /\ users' = db_add_user(users, auth[a].user_id)
    /\ auth' = [auth EXCEPT ![a] = [@ EXCEPT !.pc = "get_user_again",
                                              !.inserted = (users' # users)]]
    /\ UNCHANGED <<verifyVars, users0, grants, forbidden_attempts, history, req,
                   workload, call, pay, payments, rates>>

\* line 204: the row is read again
AuthGetUserAgain(a) ==
    /\ auth[a].pc = "get_user_again"
    /\ auth' = [auth EXCEPT ![a].pc = "stats"]
    /\ UNCHANGED <<verifyVars, ledgerVars, workload, call, pay, payments, rates>>

\* lines 207-227: get_user_stats, get_user_level_info, get_user_achievements
\* and the answer
AuthRespond(a) ==
    /\ auth[a].pc = "stats"
    /\ auth' = [auth EXCEPT ![a] = AuthReturn(@, Ok)]
    /\ UNCHANGED <<verifyVars, ledgerVars, workload, call, pay, payments, rates>>

\* lines 229-234: a call of the repository raises
AuthRaises(a) ==
    /\ auth[a].pc \in {"get_user", "add_user", "get_user_again", "stats"}
    /\ auth' = [auth EXCEPT ![a] = AuthReturn(@, HandlerCatch(Thrown))]
    /\ UNCHANGED <<verifyVars, ledgerVars, workload, call, pay, payments, rates>>

-----------------------------------------------------------------------------
(* handle_reading, one request whose inputs are kept *)

\* POST /api/reading arrives: who the caller resolves to, the length of the
\* question after .strip(), whether it matches a forbidden pattern, and
\* use_premium of the body
ReadingReceive ==
    /\ workload = "reading"
    /\ call.pc = "idle"
    /\ \E rid \in ResolvedIds(now, IdTexts),
          qlen \in QuestionLens, is_forbidden \in BOOLEAN, use_premium \in BOOLEAN :
        call' = [NoCall EXCEPT !.handler = "reading", !.pc = "handling", !.rid = rid,
                               !.question_len = qlen, !.is_forbidden = is_forbidden,
                               !.use_premium = use_premium]
    /\ UNCHANGED <<verifyVars, ledgerVars, workload, pay, payments, rates, auth>>

\* the request that arrived
Reading == call.handler = "reading" /\ call.pc = "handling"

\* the first lines of the handler, on that request
ReadingHandle ==
    /\ Reading
    /\ ReadingEntryOf(1, call.rid, call.question_len, call.is_forbidden, call.use_premium)

-----------------------------------------------------------------------------
(* handle_reading when a collaborator raises *)

\* lines 423-428: db.get_user, the generator, db.use_*_request or
\* db.add_history raises
ReadingRaises(r) ==
    /\ req[r].pc \in {"get_user", "generate", "use_request", "decrement", "add_history"}
    /\ req' = [req EXCEPT ![r] = Return(req[r], HandlerCatch(Thrown))]
    /\ UNCHANGED <<users, users0, grants, forbidden_attempts, history, verifyVars, apiVars>>

-----------------------------------------------------------------------------
(* The service *)

\* The rows the service may start with: no row, a user in good standing
\* with any balances, a banned user and a user who has not agreed to the
\* rules.
InitRows ==
    {NoUser}
    \cup {UserRow(rl, pr, FALSE, TRUE) : rl \in 0..MaxBal, pr \in 0..MaxBal}
    \cup {UserRow(1, 0, TRUE, TRUE), UserRow(0, 1, FALSE, FALSE)}

Init ==
    /\ users \in {u \in [Ids -> InitRows] : u[ADMIN_ID] = UserRow(1, 1, FALSE, TRUE)}
    /\ users0 = users
    /\ grants = <<>>
    /\ forbidden_attempts = [i \in Ids |-> 0]
    /\ history = <<>>
    /\ req = [r \in Slots |-> IdleReq]
    /\ blob = <<>>
    /\ now = T0
    /\ vres = NotCalled
    /\ workload = "reading"
    /\ call = NoCall
    /\ pay = [p \in PaySlots |-> IdlePay]
    /\ payments = <<>>
    /\ auth = [a \in AuthSlots |-> IdleAuth]
    /\ rates = <<>>

Next ==
    \/ \E r \in Slots : ReadingEntry(r)
    \/ \E r \in Slots : ReadingGetUser(r)
    \/ \E r \in Slots : ReadingGenerate(r)
    \/ \E r \in Slots : ReadingUseRequest(r)
    \/ \E r \in Slots : ReadingDecrement(r)
    \/ \E r \in Slots : ReadingAddHistory(r)
    \/ \E r \in Slots : ReadingRespond(r)
    \/ AdminAddRequests

Spec == Init /\ [][Next]_vars


\* The same service when the requests do not overlap: a request is accepted,
\* and a grant is applied, only while no handle_reading coroutine is suspended.
Quiet == \A q \in Slots : req[q].pc \in {"idle", "done"}

NextSeq ==
    \/ \E r \in Slots : Quiet /\ ReadingEntry(r)
    \/ \E r \in Slots : ReadingGetUser(r)
    \/ \E r \in Slots : ReadingGenerate(r)
    \/ \E r \in Slots : ReadingUseRequest(r)
    \/ \E r \in Slots : ReadingDecrement(r)
    \/ \E r \in Slots : ReadingAddHistory(r)
    \/ \E r \in Slots : ReadingRespond(r)
    \/ Quiet /\ AdminAddRequests

SpecSeq == Init /\ [][NextSeq]_vars

\* The other endpoints.  The clients of one behaviour call one family of
\* endpoints: the endpoints that answer in one step ("query"), handle_payment
\* ("payment", the requests interleaved at the awaits), handle_reading with
\* collaborators that may raise ("reading", one request), or handle_auth
\* ("auth", the requests interleaved at the awaits).
HistoryOf(n) == [i \in 1..n |-> [user_id |-> 1, response |-> "text", is_premium |-> FALSE]]

InitApi ==
    /\ workload \in {"query", "payment", "reading", "auth"}
    /\ \/ /\ workload = "query"
          /\ users \in {u \in [Ids -> {NoUser, UserRow(1, 1, FALSE, TRUE)}] :
                            u[ADMIN_ID].exists}
          /\ history \in {HistoryOf(n) : n \in {0, 1, MaxHistory - 1, MaxHistory}}
          /\ rates = <<>>
       \/ /\ workload = "payment"
          /\ users = [i \in Ids |-> UserRow(1, 1, FALSE, TRUE)]
          /\ history = <<>>
          /\ rates \in RateCatalogs
       \/ /\ workload = "reading"
          /\ users \in {u \in [Ids -> InitRows] : u[ADMIN_ID] = UserRow(1, 1, FALSE, TRUE)}
          /\ history = <<>>
          /\ rates = <<>>
       \/ /\ workload = "auth"
          /\ users \in {u \in [Ids -> {NoUser, UserRow(1, 1, FALSE, TRUE)}] :
                            u[ADMIN_ID].exists}
          /\ history = <<>>
          /\ rates = <<>>
    /\ users0 = users
    /\ grants = <<>>
    /\ forbidden_attempts = [i \in Ids |-> 0]
    /\ req = [r \in Slots |-> IdleReq]
    /\ blob = <<>>
    /\ now = T0
    /\ vres = NotCalled
    /\ call = NoCall
    /\ pay = [p \in PaySlots |-> IdlePay]
    /\ payments = <<>>
    /\ auth = [a \in AuthSlots |-> IdleAuth]

NextApi ==
    \/ \E h \in Endpoints : Receive(h)
    \/ Deliver
    \/ HandleGetUser
    \/ HandleHistory
    \/ HandleAchievements
    \/ HandleRates
    \/ HandleAuth
    \/ HandleAdminStats
    \/ HandleAdminUsers
    \/ HandleAdminAddRequests
    \/ \E p \in PaySlots : PaymentEntry(p)
    \/ \E p \in PaySlots : PaymentGetRates(p)
    \/ \E p \in PaySlots : PaymentLink(p)
    \/ \E p \in PaySlots : PaymentRespond(p)
    \/ \E p \in PaySlots : PaymentRaises(p)
    \/ \E a \in AuthSlots : AuthEntry(a)
    \/ \E a \in AuthSlots : AuthGetUser(a)
    \/ \E a \in AuthSlots : AuthAddUser(a)
    \/ \E a \in AuthSlots : AuthGetUserAgain(a)
    \/ \E a \in AuthSlots : AuthRespond(a)
    \/ \E a \in AuthSlots : AuthRaises(a)
    \/ ReadingReceive
    \/ ReadingHandle
    \/ ReadingGetUser(1)
    \/ ReadingGenerate(1)
    \/ ReadingUseRequest(1)
    \/ ReadingDecrement(1)
    \/ ReadingAddHistory(1)
    \/ ReadingRespond(1)
    \/ ReadingRaises(1)

SpecApi == InitApi /\ [][NextApi]_vars

-----------------------------------------------------------------------------
(* The verifier alone: a caller assembles init_data segment by segment, has *)
(* it signed, changes it, and calls verify_telegram_init_data on it.        *)

FieldVals(k) ==
    CASE k = "auth_date" -> {IntVal(T0 - AuthWindow - 1), IntVal(T0 - AuthWindow),
                             Txt(1), Blank}
      [] k = "user" -> {UserJson(1), Txt(1), Blank}
      [] k = "query_id" -> {Txt(1), Blank}
      [] k = "hash" -> {Txt(1), Txt(2), Blank}

\* one more field=value segment
AddField(k, v) ==
    /\ Len(blob) < MaxPairs
    /\ blob' = Append(blob, [k |-> k, v |-> v])
    /\ vres' = NotCalled
    /\ UNCHANGED <<now, ledgerVars, apiVars>>

\* the holder of a signing key signs what is there and appends the hash
SignBlob(secret) ==
    /\ Len(blob) < MaxPairs
    /\ blob' = Signed(blob, secret)
    /\ vres' = NotCalled
    /\ UNCHANGED <<now, ledgerVars, apiVars>>

\* the value of one segment is replaced
TamperValue(i, v) ==
    /\ i \in DOMAIN blob
    /\ v # blob[i].v
    /\ blob' = [blob EXCEPT ![i].v = v]
    /\ vres' = NotCalled
    /\ UNCHANGED <<now, ledgerVars, apiVars>>

CallVerify ==
    /\ vres = NotCalled
    /\ vres' = verify_telegram_init_data(blob, now)
    /\ UNCHANGED <<blob, now, ledgerVars, apiVars>>

InitVerify ==
    /\ blob = <<>>
    /\ now = T0
    /\ vres = NotCalled
    /\ users = [i \in Ids |-> NoUser]
    /\ users0 = users
    /\ grants = <<>>
    /\ forbidden_attempts = [i \in Ids |-> 0]
    /\ history = <<>>
    /\ req = [r \in Slots |-> IdleReq]
    /\ workload = "verify"
    /\ call = NoCall
    /\ pay = [p \in PaySlots |-> IdlePay]
    /\ payments = <<>>
    /\ auth = [a \in AuthSlots |-> IdleAuth]
    /\ rates = <<>>

NextVerify ==
    \/ \E k \in Keys : \E v \in FieldVals(k) : AddField(k, v)
    \/ \E secret \in {BotSecret, OtherSecret} : SignBlob(secret)
    \/ \E i \in DOMAIN blob : \E v \in FieldVals(blob[i].k) : TamperValue(i, v)
    \/ CallVerify

SpecVerify == InitVerify /\ [][NextVerify]_vars


-----------------------------------------------------------------------------
(* Properties of the reading transaction *)

Succeeded(r) == req[r].pc = "done" /\ req[r].response.status = 200

\* the requests of a user that were answered with a reading paid with a kind
Successes(id, kind) ==
    {r \in Slots : /\ Succeeded(r)
                   /\ req[r].user_id = id
                   /\ req[r].response.reading[1].is_premium = (kind = "premium")}

\* the step r takes from s to s'
Steps(r) == req'[r] # req[r]
Finishes(r) == req[r].pc # "done" /\ req'[r].pc = "done"

\* the kind a request declares, as the request states it
Declared(q) == IF q.use_premium THEN "premium" ELSE "free"
Other(kind) == IF kind = "premium" THEN "free" ELSE "premium"

\* C1: of the requests of one user that spend one kind, at most as many
\* succeed as the user owned units of that kind (the units the service
\* started with plus the units granted); with one unit and two concurrent
\* requests, only one succeeds.
C1_AtMostBalanceSucceed ==
    \A id \in Ids, kind \in Kinds :
        users0[id].exists =>
            Cardinality(Successes(id, kind))
                <= Balance(users0[id], kind) + SumGrants(grants, id, kind)

\* C2: in every reachable state the two balances of every user are >= 0.
C2_BalancesNeverNegative ==
    \A id \in Ids : users[id].requests_left >= 0 /\ users[id].premium_requests >= 0

\* C3: when the generator returns nothing usable, the request ends with 503,
\* and no step the request has taken up to there (entry, user lookup,
\* generator call) changes a balance or appends an Interaction.
C3_FailedGenerationCostsNothing ==
    [][\A r \in Slots :
         /\ (req[r].pc = "generate" /\ Finishes(r))
                => req'[r].response = ErrorResponse(503, "AI service unavailable")
         /\ (Steps(r) /\ req[r].pc \in {"idle", "get_user", "generate"})
                => users' = users /\ history' = history]_vars

\* a request of a user who owns units was answered 503, nothing was spent and
\* nothing was recorded
C3_Witness ==
    \E r \in Slots :
        /\ req[r].pc = "done" /\ req[r].response.status = 503
        /\ req[r].user_id \in Ids
        /\ users[req[r].user_id].requests_left > 0
        /\ users = users0 /\ history = <<>>

\* the answers that precede the user lookup: validation and policy
EarlyRejection(resp) ==
    /\ resp.status = 400
    /\ resp.error \in {"Question is required", "Question too long", "forbidden_keywords"}

\* C4: a request of a user who is banned or has not agreed to the rules, once
\* past validation and the topic filter, is answered 403 Forbidden.
C4_FlaggedUserGetsForbidden ==
    \A r \in Slots :
        (/\ req[r].pc = "done"
         /\ req[r].user_id \in Ids
         /\ users[req[r].user_id].exists
         /\ (users[req[r].user_id].is_banned \/ ~users[req[r].user_id].agreed_rules)
         /\ ~EarlyRejection(req[r].response))
            => req[r].response.status = 403

\* C5: a request declares one kind; the pre-check reads only the balance of
\* that kind and answers with that kind's own code when it is not positive,
\* whatever the other balance is; the deduction takes one unit of that kind;
\* no step of the request changes the balance of the other kind.
C5_NoSubstitution ==
    [][\A r \in Slots :
         LET q == req[r]
             id == q.user_id
             kind == Declared(q)
         IN  (Steps(r) /\ q.pc # "idle" /\ id \in Ids /\ users[id].exists) =>
               /\ (q.pc = "get_user" /\ Balance(users[id], kind) <= 0)
                      => req'[r].response = ErrorResponse(400, InsufficientError(kind))
               /\ (q.pc = "get_user" /\ Balance(users[id], kind) > 0)
                      => req'[r].pc = "generate"
               /\ q.pc = "decrement"
                      => Balance(users'[id], kind) = Balance(users[id], kind) - 1
               /\ Balance(users'[id], Other(kind)) = Balance(users[id], Other(kind))]_vars

\* a premium request was refused with no_premium_requests while the user
\* owned free units, and a free request of the same user was served
C5_Witness ==
    \E r, p \in Slots :
        /\ req[r].pc = "done" /\ req[r].response.error = "no_premium_requests"
        /\ req[r].user_id \in Ids
        /\ Succeeded(p) /\ req[p].user_id = req[r].user_id
        /\ ~req[p].response.reading[1].is_premium
        /\ users[req[r].user_id].premium_requests = 0
        /\ users[req[r].user_id].requests_left > 0

\* C7: a request answered with the policy violation is answered 400
\* forbidden_keywords in its first step; that step adds exactly 1 to the
\* violation counter of the caller and nothing to any other counter, leaves
\* balances and history as they are, and the violation counters change in no
\* other step.
C7_PolicyViolation ==
    [][/\ \A r \in Slots :
            (Finishes(r) /\ req'[r].response.error = "forbidden_keywords") =>
                /\ req[r].pc = "idle"
                /\ req'[r].response.status = 400
                /\ req'[r].user_id \in Ids
                /\ forbidden_attempts' =
                       [forbidden_attempts EXCEPT ![req'[r].user_id] = @ + 1]
                /\ users' = users /\ history' = history
       /\ forbidden_attempts' # forbidden_attempts =>
            \E r \in Slots : Finishes(r) /\ req'[r].response.error = "forbidden_keywords"]_vars

\* a user who owns units asked a forbidden question: one violation counted,
\* nothing spent, nothing recorded
C7_Witness ==
    \E r \in Slots :
        /\ req[r].pc = "done" /\ req[r].response.error = "forbidden_keywords"
        /\ req[r].user_id \in Ids
        /\ users[req[r].user_id].requests_left > 0
        /\ forbidden_attempts[req[r].user_id] = 1
        /\ users = users0 /\ history = <<>>

\* the requests of a user, declaring a kind, that are suspended at a pc
Suspended(id, kind, pc) ==
    {r \in Slots : req[r].pc = pc /\ req[r].user_id = id /\ Declared(req[r]) = kind}

\* C6: when requests do not overlap, a request that succeeds takes exactly
\* one unit of the kind it declared and leaves exactly one Interaction: the
\* balance of every user and kind is what the user started with, plus the
\* grants, minus one per Interaction of that kind (and one for a request
\* that has paid and not yet recorded), there is one Interaction per request
\* served, and each success answers with cards and an interpretation.
C6_SuccessCostsOneUnit ==
    /\ \A id \in Ids, kind \in Kinds :
        users[id].exists =>
          /\ Balance(users[id], kind) =
                Balance(users0[id], kind) + SumGrants(grants, id, kind)
                - Cardinality(Interactions(history, id, kind))
                - Cardinality(Suspended(id, kind, "add_history"))
          /\ Cardinality(Interactions(history, id, kind)) =
                Cardinality(Successes(id, kind))
                + Cardinality(Suspended(id, kind, "respond"))
    /\ \A r \in Slots :
        Succeeded(r) =>
          /\ Len(req[r].response.reading) = 1
          /\ {"cards", "interpretation"} \subseteq DOMAIN req[r].response.reading[1]

\* the user owned 3 free units, asked once without premium and was served:
\* 2 units are left and the history holds one Interaction
C6_Witness ==
    \E r \in Slots :
        /\ Succeeded(r) /\ req[r].user_id = 1
        /\ ~req[r].response.reading[1].is_premium
        /\ users0[1].requests_left + SumGrants(grants, 1, "free") = 3
        /\ users[1].requests_left = 2
        /\ Cardinality(Interactions(history, 1, "free")) = 1

-----------------------------------------------------------------------------
(* Properties of the verifier *)

Called == vres # NotCalled

\* the segments that carry a hash (hash= with nothing after it carries none)
HashSegments(b) == {i \in DOMAIN b : b[i].k = "hash" /\ b[i].v # Blank}

\* the hash field of the blob is the HMAC, under the bot's secret, of all
\* the other key=value segments sorted and joined
PlatformSigned(b) ==
    /\ HashSegments(b) # {}
    /\ b[Min(HashSegments(b))].v = HmacHex(BotSecret, PlatformCheckString(b))

\* no auth_date of the blob is expired or malformed, every user is JSON
FreshAndWellFormed(b, t) ==
    \A i \in DOMAIN b :
        /\ b[i].k = "auth_date" => (b[i].v.tag = "int" /\ t - b[i].v.n <= 86400)
        /\ b[i].k = "user" => b[i].v.tag \in {"userjson", "int"}

\* C8: a blob with no expired auth_date and a well-formed user is accepted
\* if and only if its hash is the HMAC of the check-string built from all
\* its other key=value pairs; replacing the value of any one segment of an
\* accepted blob makes it Invalid.
C8_AcceptedIffSigned ==
    (Called /\ FreshAndWellFormed(blob, now)) =>
        /\ vres.st = "valid" <=> PlatformSigned(blob)
        /\ vres.st = "valid" =>
             \A i \in DOMAIN blob : \A v \in FieldVals(blob[i].k) \ {blob[i].v} :
                 verify_telegram_init_data([blob EXCEPT ![i].v = v], now).st = "invalid"

\* the received hash equals the hash the verifier calculates (line 70)
HashPasses(b) ==
    /\ "hash" \in ParsedKeys(b)
    /\ FirstValue(b, "hash") = HmacHex(BotSecret, data_check_string(b))

UserParses(b) ==
    "user" \in ParsedKeys(b) => FirstValue(b, "user").tag \in {"userjson", "int"}

\* C9: a blob whose hash passes the comparison (and whose user, if any,
\* parses) is accepted when it has no auth_date, and with an integer
\* auth_date it is accepted exactly when now - auth_date <= 86400.
C9_AuthDateWindow ==
    (Called /\ HashPasses(blob) /\ UserParses(blob)) =>
        IF "auth_date" \notin ParsedKeys(blob) THEN vres.st = "valid"
        ELSE FirstValue(blob, "auth_date").tag = "int" =>
                (vres.st = "valid" <=> now - FirstValue(blob, "auth_date").n <= 86400)

\* a signed blob whose auth_date is exactly 86400 seconds old was accepted
C9_Witness ==
    /\ vres.st = "valid"
    /\ "auth_date" \in ParsedKeys(blob)
    /\ now - FirstValue(blob, "auth_date").n = 86400

\* C10: every call returns: valid, or Invalid (False, None); the empty blob,
\* a blob without hash, a signed blob with a user that is not JSON and a
\* signed blob with an auth_date that is not an integer are Invalid.
C10_TotalAndInvalid ==
    Called =>
        /\ vres.st \in {"valid", "invalid"}
        /\ blob = <<>> => vres = VInvalid
        /\ HashSegments(blob) = {} => vres = VInvalid
        /\ (PlatformSigned(blob)
            /\ \E i \in DOMAIN blob :
                 blob[i].k = "user" /\ blob[i].v.tag \notin {"userjson", "int"})
              => vres = VInvalid
        /\ (PlatformSigned(blob)
            /\ \E i \in DOMAIN blob : blob[i].k = "auth_date" /\ blob[i].v.tag # "int")
              => vres = VInvalid

\* json.loads raised on the user of a correctly signed blob, and the caller
\* got Invalid
C10_Witness ==
    /\ vres = VInvalid
    /\ PlatformSigned(blob)
    /\ HashPasses(blob)
    /\ "user" \in ParsedKeys(blob) /\ FirstValue(blob, "user").tag = "txt"
    /\ "auth_date" \notin ParsedKeys(blob)

-----------------------------------------------------------------------------
(* Properties of the identity resolution and of the other endpoints *)

\* the signed-session header verifies and carries a user object
SignedUser(c) ==
    /\ c.init_data # <<>>
    /\ verify_telegram_init_data(c.init_data, now).st = "valid"
    /\ "user" \in ParsedKeys(c.init_data)
    /\ FirstValue(c.init_data, "user").tag = "userjson"

\* the endpoints whose caller is any user
UserEndpoints == {"user", "history", "achievements"}
AdminEndpoints == {"admin_stats", "admin_users", "admin_add_requests"}

\* the signed user wins over X-User-Id and ?user_id
SignedUserWins ==
    (call.pc = "received" /\ call.handler \in Resolving /\ SignedUser(call)) =>
        call.rid = GotId(FirstValue(call.init_data, "user").n)

\* X-User-Id is read only when the signed session gives no user, and
\* ?user_id only when X-User-Id gives no integer
HeaderThenQuery ==
    (call.pc = "received" /\ call.handler \in Resolving /\ call.init_data = <<>>) =>
        /\ IsInt(call.x_user_id) => call.rid = GotId(call.x_user_id.n)
        /\ (~IsInt(call.x_user_id) /\ IsInt(call.user_id_query))
                => call.rid = GotId(call.user_id_query.n)
        /\ (~IsInt(call.x_user_id) /\ ~IsInt(call.user_id_query)) => call.rid = NoId

\* handle_reading and handle_payment go on only with an id; without one
\* they answer 401 (500 when the resolution raises)
NoIdNoService ==
    /\ \A r \in Slots :
        (req[r].pc # "idle" /\ req[r].user_id = 0) =>
            req[r].pc = "done" /\ req[r].response.status \in {401, 500}
    /\ \A p \in PaySlots :
        (pay[p].pc # "idle" /\ pay[p].user_id = 0) =>
            pay[p].pc = "done" /\ pay[p].response.status \in {401, 500}

\* C11: on every endpoint that resolves its caller (all but /api/auth), the
\* signed user wins whatever X-User-Id and ?user_id contain, then X-User-Id,
\* then ?user_id, and when none of the three yields an id the answer is 401.
C11_OrderAnd401Everywhere ==
    /\ SignedUserWins
    /\ HeaderThenQuery
    /\ NoIdNoService
    /\ (call.pc = "done" /\ call.handler \in Resolving /\ call.rid = NoId)
            => call.response.status = 401

\* C11 as amended: the order is the same on every endpoint that resolves its
\* caller; when none of the three yields an id, /api/user, /api/reading,
\* /api/history, /api/payment and /api/achievements answer 401 and the
\* /api/admin endpoints answer 403.
C11_OrderAnd401ForUsers ==
    /\ SignedUserWins
    /\ HeaderThenQuery
    /\ NoIdNoService
    /\ (call.pc = "done" /\ call.handler \in UserEndpoints /\ call.rid = NoId)
            => call.response.status = 401
    /\ (call.pc = "done" /\ call.handler \in AdminEndpoints /\ call.rid = NoId)
            => call.response.status = 403

\* a request carries the signed session of user 1 and X-User-Id: 2, and the
\* caller is resolved as user 1
C11_Witness ==
    /\ call.pc = "received" /\ call.handler = "history"
    /\ SignedUser(call)
    /\ call.x_user_id = IntVal(2)
    /\ call.rid = GotId(1)

-----------------------------------------------------------------------------
(* Properties of the payment intents *)

\* the rows of the repository catalog with a key
RepoRows(key) == {i \in DOMAIN rates : rates[i].package_key = key}

\* the catalog entry a key stands for: the repository's row, the static
\* entry only when the repository has none, NoRate when neither has the key
Chosen(key) ==
    IF RepoRows(key) # {} THEN rates[Min(RepoRows(key))]
    ELSE IF key \in DOMAIN PAYMENT_OPTIONS
    THEN Rate(key, PAYMENT_OPTIONS[key].requests, PAYMENT_OPTIONS[key].price)
    ELSE NoRate

PaySucceeded(p) == pay[p].pc = "done" /\ pay[p].response.status = 200

\* the intents a label resolves to
Resolve(label) == {i \in DOMAIN payments : payments[i].label = label}

\* C12: the rate of a request is the repository's row for its key, the
\* static entry only when the repository has no row, and a request whose
\* key is in neither is answered 400 Invalid package and creates no intent;
\* amount and units of every intent are those of the chosen entry.
C12_CatalogThenDefault ==
    /\ \A p \in PaySlots :
        /\ pay[p].pc \in {"link", "respond"} =>
              pay[p].rate = Chosen(pay[p].package_key) /\ pay[p].rate # NoRate
        /\ (pay[p].pc = "done" /\ pay[p].response.error = "Invalid package") =>
              /\ Chosen(pay[p].package_key) = NoRate
              /\ pay[p].response.status = 400
              /\ \A i \in DOMAIN payments :
                    payments[i].package_key # pay[p].package_key
        /\ PaySucceeded(p) =>
              /\ pay[p].payment.amount = Chosen(pay[p].package_key).price
              /\ pay[p].payment.requests = Chosen(pay[p].package_key).requests
    /\ \A i \in DOMAIN payments :
        /\ Chosen(payments[i].package_key) # NoRate
        /\ payments[i].amount = Chosen(payments[i].package_key).price
        /\ payments[i].units_granted = Chosen(payments[i].package_key).requests

\* buy_1 is in both catalogs at different prices, and the intent carries the
\* price and the units of the repository's row
C12_Witness ==
    /\ RepoRows("buy_1") # {}
    /\ rates[Min(RepoRows("buy_1"))].price # PAYMENT_OPTIONS["buy_1"].price
    /\ \E p \in PaySlots :
        /\ PaySucceeded(p) /\ pay[p].package_key = "buy_1"
        /\ \E i \in Resolve(pay[p].payment.label) :
              payments[i].amount = rates[Min(RepoRows("buy_1"))].price

C14_PersistedBeforeAnswer ==
    \A p \in PaySlots :
        /\ (PaySucceeded(p) \/ (pay[p].pc = "respond" /\ pay[p].payment.url)) =>
              /\ pay[p].payment.url
              /\ \E i \in Resolve(pay[p].payment.label) :
                    /\ payments[i].user_id = pay[p].user_id
                    /\ payments[i].status = "pending"
        /\ (pay[p].pc = "done" /\ ~pay[p].payment.url) => pay[p].response.status # 200
        /\ (pay[p].pc = "done"
            /\ pay[p].response.error = "Failed to generate payment link")
              => pay[p].response.status = 500

\* one request was answered with a url and its intent is pending, another
\* got no url and was answered 500
C14_Witness ==
    \E p, q \in PaySlots :
        /\ PaySucceeded(p)
        /\ \E i \in Resolve(pay[p].payment.label) : payments[i].status = "pending"
        /\ pay[q].pc = "done"
        /\ pay[q].response = ErrorResponse(500, "Failed to generate payment link")

-----------------------------------------------------------------------------
(* Properties of the pagination *)

\* ceil(a / b) for b # 0: the least integer not below the quotient
Ceil(a, b) ==
    LET bound == (IF a < 0 THEN -a ELSE a) + 1
        NotBelow(n) == IF b > 0 THEN n * b >= a ELSE n * b <= a
    IN  CHOOSE n \in (-bound)..bound :
            NotBelow(n) /\ \A m \in (-bound)..bound : NotBelow(m) => n <= m

\* C15: for every page >= 0 and every limit with which /api/history answers
\* success, total_pages is ceil(total / limit) for total > 0 and 1 for
\* total = 0, the records are asked for at offset page * limit with that
\* limit, and page = 0 with limit = 10 returns the records 0..9.
C15_Pagination ==
    (call.pc = "done" /\ call.handler = "history" /\ call.response.status = 200
     /\ call.pagination.page >= 0) =>
        LET pg == call.pagination
        IN  /\ pg.total_pages = IF pg.total = 0 THEN 1 ELSE Ceil(pg.total, pg.limit)
            /\ pg.offset = pg.page * pg.limit
            /\ (pg.page = 0 /\ pg.limit = 10) =>
                  pg.records = {k \in 0..9 : k < pg.total}

-----------------------------------------------------------------------------
(* Properties of the admin endpoints *)

-----------------------------------------------------------------------------
(* Properties of the catch-all *)

\* the statuses a handler answers with
HttpStatuses == {200, 400, 401, 403, 404, 500, 503}

\* the request of a slot is suspended at a call of a collaborator
ReadingAwaits(r) ==
    req[r].pc \in {"get_user", "generate", "use_request", "decrement", "add_history"}
PaymentAwaits(p) == pay[p].pc \in {"get_rates", "link"}

\* C17: every request that is under way can take a step, every step that
\* ends a request ends it with an HTTP answer, and when a collaborator (the
\* repository, the generator, the payment link) raises at any await the
\* answer is 500 with success = false: no exception leaves a handler.
C17_FailuresBecomeInternal ==
    [][/\ \A r \in Slots :
            /\ (req[r].pc \notin {"idle", "done"}) =>
                  ENABLED (ReadingGetUser(r) \/ ReadingGenerate(r) \/ ReadingUseRequest(r)
                           \/ ReadingDecrement(r) \/ ReadingAddHistory(r)
                           \/ ReadingRespond(r))
            /\ Finishes(r) => req'[r].response.status \in HttpStatuses
            /\ (ReadingAwaits(r) /\ ReadingRaises(r)) =>
                  req'[r].pc = "done" /\ req'[r].response.status = 500
       /\ \A p \in PaySlots :
            /\ (pay[p].pc \notin {"idle", "done"}) =>
                  ENABLED (PaymentGetRates(p) \/ PaymentLink(p) \/ PaymentRespond(p))
            /\ (pay[p].pc # "done" /\ pay'[p].pc = "done")
                  => pay'[p].response.status \in HttpStatuses
            /\ (PaymentAwaits(p) /\ PaymentRaises(p)) =>
                  pay'[p].pc = "done" /\ pay'[p].response.status = 500
       /\ call.pc = "received" =>
            ENABLED (HandleGetUser \/ HandleHistory \/ HandleAchievements \/ HandleRates
                     \/ HandleAuth \/ HandleAdminStats \/ HandleAdminUsers
                     \/ HandleAdminAddRequests)
       /\ (call.pc = "received" /\ call' # call) =>
            /\ call'.pc = "done"
            /\ call'.response.status \in HttpStatuses
            /\ call'.raised => call'.response.status = 500]_vars

\* db.add_history raised after the unit was taken: the request was answered
\* 500 and the deduction stays
C17_Witness ==
    \E r \in Slots :
        /\ req[r].pc = "done" /\ req[r].response.status = 500
        /\ req[r].user_id \in Ids
        /\ users[req[r].user_id].requests_left = users0[req[r].user_id].requests_left - 1
        /\ history = <<>>

-----------------------------------------------------------------------------
(* Properties of the order of the steps of a reading, of the history and   *)
(* of the grants                                                           *)

\* the step a request takes next, by where it is suspended
PcOrder(from, to) ==
    \/ from = "idle" /\ to \in {"get_user", "done"}
    \/ from = "get_user" /\ to \in {"generate", "done"}
    \/ from = "generate" /\ to \in {"use_request", "done"}
    \/ from = "use_request" /\ to \in {"decrement", "add_history"}
    \/ from = "decrement" /\ to = "add_history"
    \/ from = "add_history" /\ to = "respond"
    \/ from = "respond" /\ to = "done"

\* C18: a request goes through the pre-check, the generator call, the
\* deduction (db.use_*_request) and the append in this order and through
\* each at most once: a step of a request changes a balance only in the
\* deduction, which it reaches only after the generator returned a result
\* and not a failure; it appends an Interaction only after the deduction
\* call, and it calls the generator only once, coming from the pre-check.
C18_StepsInOrder ==
    [][\A r \in Slots :
         Steps(r) =>
            /\ PcOrder(req[r].pc, req'[r].pc)
            /\ users' # users => req[r].pc = "decrement"
            /\ history' # history =>
                  /\ req[r].pc = "add_history"
                  /\ history' = Append(history, history'[Len(history')])
            /\ (req[r].pc = "generate" /\ req'[r].pc = "done")
                  => req'[r].response.status = 503
            /\ req'[r].pc = "generate" => req[r].pc = "get_user"]_vars

\* a premium request was served: one premium unit is gone and its
\* Interaction is the last of the history
C18_Witness ==
    \E r \in Slots :
        /\ Succeeded(r) /\ req[r].response.reading[1].is_premium
        /\ req[r].user_id \in Ids
        /\ users[req[r].user_id].premium_requests
              = users0[req[r].user_id].premium_requests - 1
        /\ Len(history) = 1
        /\ history[1].user_id = req[r].user_id /\ history[1].is_premium

\* the Interactions of a user
InteractionsOf(h, id) == {i \in DOMAIN h : h[i].user_id = id}

\* the units the readings have taken from a user: what the user started
\* with, plus the grants, minus what is left
UnitsDeducted(id) ==
    (users0[id].requests_left + SumGrants(grants, id, "free")
        - users[id].requests_left)
    + (users0[id].premium_requests + SumGrants(grants, id, "premium")
        - users[id].premium_requests)

\* the requests of a user whose generation succeeded (they are all answered
\* with the reading once no request is under way)
GenerationsSucceeded(id) == {r \in Slots : Succeeded(r) /\ req[r].user_id = id}

\* C19: no step changes or removes an Interaction, and once no request is
\* under way every user has as many Interactions as requests whose
\* generation succeeded, and as many as units the readings have deducted.
C19_OneInteractionPerSuccess ==
    [][/\ Len(history') >= Len(history)
       /\ SubSeq(history', 1, Len(history)) = history
       /\ Quiet' =>
            \A id \in Ids :
                users0[id].exists =>
                    /\ Cardinality(InteractionsOf(history', id))
                          = Cardinality(GenerationsSucceeded(id)')
                    /\ Cardinality(InteractionsOf(history', id)) = UnitsDeducted(id)']_vars

-----------------------------------------------------------------------------
(* Properties of the first checks of handle_reading                        *)

\* the answers of the question validation
ValidationRejected(resp) ==
    resp.status = 400 /\ resp.error \in {"Question is required", "Question too long"}

\* the caller of the request that arrived was identified
Identified == Reading /\ call.rid.kind = "id" /\ ~Falsy(call.rid)

\* C22: an identified request whose question is empty after trimming or is
\* longer than 300 characters is rejected with 400 by the validation, one of
\* 1 to 300 characters (300 included) is not; the rejection ends the request
\* in its first step, before the generator, and changes no balance, no
\* violation counter and no history, and nothing changes afterwards.
C22_QuestionValidation ==
    [][/\ (Identified /\ req[1].pc = "idle" /\ req'[1].pc # "idle") =>
            /\ (call.question_len = 0 \/ call.question_len > 300) =>
                    ValidationRejected(req'[1].response)
            /\ call.question_len \in 1..300 => ~ValidationRejected(req'[1].response)
            /\ ValidationRejected(req'[1].response) =>
                    /\ req'[1].pc = "done"
                    /\ UNCHANGED <<users, forbidden_attempts, history>>
       /\ (req[1].pc = "done" /\ ValidationRejected(req[1].response)) =>
            UNCHANGED <<req, users, forbidden_attempts, history>>]_vars

\* a question of 301 characters, forbidden topic or not, from a user who
\* owns units: rejected, and the user owns what they owned
C22_Witness ==
    /\ Identified /\ call.question_len = 301 /\ call.is_forbidden
    /\ call.rid.id = 1 /\ users0[1].requests_left > 0
    /\ req[1].pc = "done" /\ req[1].response = ErrorResponse(400, "Question too long")
    /\ users = users0 /\ forbidden_attempts[1] = 0 /\ history = <<>>

-----------------------------------------------------------------------------
(* Properties of a signed header that does not verify                      *)

\* the header is there and the verifier rejects it (bad hash, expired), or
\* accepts it and it carries no user
FailsVerification(b) ==
    /\ b # <<>>
    /\ LET res == verify_telegram_init_data(b, now)
       IN  res.st # "valid" \/ res.utag = "none"

\* the caller the unsigned fields name: X-User-Id when it is an integer, else
\* ?user_id when it is one, else nobody
Unsigned(x_user_id, user_id_query) ==
    IF IsInt(x_user_id) THEN GotId(x_user_id.n)
    ELSE IF IsInt(user_id_query) THEN GotId(user_id_query.n)
    ELSE NoId

\* C23: when the signed header of a request is present and fails the
\* verification, the request is not rejected for it: the caller is resolved
\* as if the header were absent, from X-User-Id and then ?user_id alone.
C23_FailedSessionFallsThrough ==
    (call.pc = "received" /\ call.handler \in Resolving
        /\ FailsVerification(call.init_data)) =>
            /\ call.rid.kind # "raise"
            /\ call.rid = Unsigned(call.x_user_id, call.user_id_query)

\* a session of user 1 that expired, sent with X-User-Id: 2: the caller is
\* user 2, the admin
C23_Witness ==
    /\ call.pc = "received" /\ call.handler = "admin_stats"
    /\ FailsVerification(call.init_data)
    /\ "auth_date" \in ParsedKeys(call.init_data)
    /\ call.x_user_id = IntVal(ADMIN_ID)
    /\ call.rid = GotId(ADMIN_ID)

-----------------------------------------------------------------------------
(* Properties of the order of the checks of handle_reading                 *)

\* what the lookup and the balance check answer for a user, when they are
\* reached: no row, no unit of the kind asked for, or the request goes on
\* to the generator (answered 200, or 503; 500 when a collaborator raised)
LookupAnswers(row, use_premium, resp) ==
    \/ resp.status = 500
    \/ IF ~row.exists THEN resp.status = 404
       ELSE IF Balance(row, CheckKind(use_premium)) <= 0
       THEN resp = ErrorResponse(400, InsufficientError(CheckKind(use_premium)))
       ELSE resp.status \in {200, 503}

\* C24: the answer of a request is decided by the first check it fails, in
\* the order identity, question, forbidden topic, user row, balance.  A
\* forbidden question is answered 400 forbidden_keywords and counted against
\* the caller's id whether or not that id has a row or a unit left; no other
\* request is counted.
C24_ChecksInOrder ==
    (Reading /\ req[1].pc = "done") =>
        LET rid == call.rid
            resp == req[1].response
        IN  IF rid.kind = "raise" THEN resp.status = 500
            ELSE IF Falsy(rid) THEN resp.status = 401
            ELSE IF call.question_len = 0 \/ call.question_len > 300
            THEN ValidationRejected(resp) /\ forbidden_attempts[rid.id] = 0
            ELSE IF call.is_forbidden
            THEN /\ resp = ErrorResponse(400, "forbidden_keywords")
                 /\ forbidden_attempts[rid.id] = 1
                 /\ users = users0 /\ history = <<>>
            ELSE /\ forbidden_attempts[rid.id] = 0
                 /\ LookupAnswers(users0[rid.id], call.use_premium, resp)

\* a forbidden question sent with the id 1, which has no row: answered 400
\* forbidden_keywords, not 404, and counted against the id 1
C24_Witness ==
    /\ Reading /\ call.is_forbidden /\ call.question_len = 1
    /\ call.rid = GotId(1) /\ ~users0[1].exists
    /\ req[1].pc = "done" /\ req[1].response = ErrorResponse(400, "forbidden_keywords")
    /\ forbidden_attempts[1] = 1

-----------------------------------------------------------------------------
(* Properties of what handle_reading takes for a generated reading         *)

\* the request of slot 1 was served: one unit of the kind it chose is gone,
\* and the one Interaction holds what the answer holds
ServedAndCharged ==
    LET id == req[1].user_id
        reading == req[1].response.reading[1]
        kind == IF reading.is_premium THEN "premium" ELSE "free"
    IN  /\ Balance(users[id], kind) = Balance(users0[id], kind) - 1
        /\ Balance(users[id], Other(kind)) = Balance(users0[id], Other(kind))
        /\ history = <<[user_id |-> id, response |-> reading.interpretation,
                        is_premium |-> reading.is_premium]>>

\* C25: whenever the generator is called, a response without 'choices' is one
\* of its answers the handler goes on with, with an empty interpretation; a
\* request leaves the generator call either going on to the deduction or
\* answered 503 (500 when the call raised) with nothing written; every
\* request answered with a reading, its interpretation empty or not, has
\* paid one unit and has its Interaction, and a request answered 503 has
\* changed nothing.
C25_NonEmptyIsUsable ==
    [][/\ req[1].pc = "generate" =>
            ENABLED (ReadingGenerate(1) /\ req'[1].pc = "use_request"
                        /\ req'[1].interpretation = "")
       /\ (req[1].pc = "generate" /\ Steps(1)) =>
            \/ req'[1].pc = "use_request" /\ UNCHANGED <<users, history>>
            \/ /\ req'[1].pc = "done" /\ req'[1].response.status \in {503, 500}
               /\ UNCHANGED <<users, history>>
       /\ Succeeded(1)' => ServedAndCharged'
       /\ (req'[1].pc = "done" /\ req'[1].response.status = 503) =>
            users' = users0' /\ history' = <<>>]_vars

\* the generator answered without 'choices': the free request was answered
\* with an empty interpretation, the unit is gone and the Interaction holds
\* an empty text
C25_Witness ==
    /\ Succeeded(1)
    /\ req[1].response.reading[1].interpretation = ""
    /\ ~req[1].response.reading[1].is_premium
    /\ users[req[1].user_id].requests_left = users0[req[1].user_id].requests_left - 1
    /\ Len(history) = 1 /\ history[1].response = ""

-----------------------------------------------------------------------------
(* Properties of the creation of users                                     *)

\* the initData of a request verifies and carries the user id
VerifiedFor(b, id) ==
    LET res == verify_telegram_init_data(b, now)
    IN  res.st = "valid" /\ res.utag = "obj" /\ res.uid = id

\* the handle_auth requests that created the row of id
Creators(id) == {a \in AuthSlots : auth[a].inserted /\ auth[a].user_id = id}

\* no handle_auth request is under way
AuthQuiet == \A a \in AuthSlots : auth[a].pc \in {"idle", "done"}

\* this step is the db.add_user of a handle_auth request whose initData
\* verifies for id (of a coroutine, or of the request answered in one step)
AddedByAuth(id) ==
    \/ \E a \in AuthSlots :
        /\ auth[a].pc = "add_user" /\ auth[a].user_id = id
        /\ auth'[a].inserted
        /\ VerifiedFor(auth[a].init_data, id)
    \/ Received("auth") /\ call'.pc = "done" /\ VerifiedFor(call.init_data, id)

\* C21: a row appears only as the new user's row, by the db.add_user of a
\* handle_auth request whose initData verifies for that id, and no step of
\* handle_auth changes a row that exists; whatever the
\* interleaving, at most one request creates the row of an id, and once the
\* requests are over an id that was new and for which a request was
\* answered 200 has its row, created by exactly one of them; a request
\* whose initData fails verification is answered 401 and creates nothing.
C21_CreatedOnceByVerifiedAuth ==
    [][/\ \A id \in Ids :
            /\ (~users[id].exists /\ users'[id].exists) =>
                    users'[id] = NewUserRow /\ AddedByAuth(id)
            /\ (users[id].exists /\ (auth' # auth \/ Received("auth"))) =>
                    users'[id] = users[id]
       /\ \A id \in Ids :
            /\ Cardinality(Creators(id)') <= 1
            /\ (AuthQuiet' /\ ~users0'[id].exists
                  /\ \E a \in AuthSlots : /\ auth'[a].user_id = id
                                          /\ auth'[a].response.status = 200) =>
                    users'[id] = NewUserRow /\ Cardinality(Creators(id)') = 1
       /\ \A a \in AuthSlots :
            (auth'[a].pc = "done" /\ auth'[a].response.status # 500
                /\ ~\E id \in Ids : VerifiedFor(auth'[a].init_data, id)) =>
                    /\ auth'[a].response.status = 401
                    /\ ~auth'[a].inserted
                    /\ auth[a].pc = "idle" => users' = users
       /\ (Received("auth") /\ call'.pc = "done" /\ call'.response.status # 500
             /\ ~\E id \in Ids : VerifiedFor(call.init_data, id)) =>
                call'.response.status = 401 /\ users' = users]_vars

\* two requests with the verified session of user 1, who is new, both found
\* no row and both were answered 200: one of them created the row
C21_Witness ==
    /\ workload = "auth" /\ ~users0[1].exists
    /\ \A a \in AuthSlots :
        /\ auth[a].pc = "done" /\ auth[a].response.status = 200
        /\ auth[a].user_id = 1
    /\ Cardinality(Creators(1)) = 1
    /\ users[1] = NewUserRow
=============================================================================
